---- MODULE Spec2Model ----
(***************************************************************************)
(* A model of src/app.py: an AI chat front end that manages a workspace of *)
(* Python files and supervises one Streamlit preview subprocess.           *)
(*                                                                         *)
(* Python strings are sequences of characters.  A Python value that can be *)
(* None, a string or something else (a parsed JSON value, a session field) *)
(* is a record [k, v]: k is its type and v its payload.                    *)
(***************************************************************************)
EXTENDS Integers, Sequences, FiniteSets, TLC

VARIABLES
    platform,        \* the operating system the script runs on: pathlib follows it
    files,           \* the files of WORKSPACE_DIR: name -> Str(content), or NoFile
    outside,         \* accesses made to files outside WORKSPACE_DIR, as [op, name]
    session_state,   \* st.session_state
    procs,           \* the subprocesses spawned so far: pid -> [status, port]
    selected_tab,    \* the main_tab_menu widget
    rerun_pending,   \* st.rerun() ended the last script run: the next run is queued
    api_calls,       \* the number of model.generate_content calls made
    ev               \* the last script run: what triggered it and what it observed

vars == <<platform, files, outside, session_state, procs, selected_tab,
          rerun_pending, api_calls, ev>>

(***************************************************************************)
(* Values                                                                  *)
(***************************************************************************)
None == [k |-> "none", v |-> <<>>]
Str(s) == [k |-> "str", v |-> s]
\* a JSON value that is neither null nor a string, and is truthy (7, true, [1])
Other == [k |-> "other", v |-> <<>>]
Proc(pid) == [k |-> "proc", v |-> <<pid>>]
IntV(n) == [k |-> "int", v |-> <<n>>]
True == [k |-> "bool", v |-> <<TRUE>>]
False == [k |-> "bool", v |-> <<FALSE>>]
Bool(b) == IF b THEN True ELSE False

\* Truthy with the bug of taking the empty string for a value that is present
TruthyNotNone(x) == x.k # "none"

\* Python truthiness of a value: None and '' are falsy
Truthy(x) == x.k # "none" /\ ~(x.k = "str" /\ x.v = <<>>)

\* what files maps a name to when there is no such file
NoFile == None

(***************************************************************************)
(* File names                                                              *)
(***************************************************************************)
A_PY == <<"a", ".", "p", "y">>
B_PY == <<"b", ".", "p", "y">>
UP_A_PY == <<".", ".", "/", "a", ".", "p", "y">>
ABS_A_PY == <<"/", "a", ".", "p", "y">>
BS_A_PY == <<"\\", "a", ".", "p", "y">>
DRIVE_C == <<"C", ":", "/", "c">>

Platforms == {"posix", "nt"}

\* '..' in filename
HasDotDot(s) == \E i \in 1..(Len(s) - 1) : s[i] = "." /\ s[i + 1] = "."

\* filename.startswith(('/', '\\'))
StartsWithSlash(s) == Len(s) > 0 /\ s[1] \in {"/", "\\"}

InvalidPath(s) == HasDotDot(s) \/ StartsWithSlash(s)

\* the path separators of pathlib on each platform
Separators(plat) == IF plat = "nt" THEN {"/", "\\"} ELSE {"/"}

RECURSIVE SplitPath(_, _)
SplitPath(seps, s) ==
    IF s = <<>> THEN << <<>> >>
    ELSE LET rest == SplitPath(seps, Tail(s))
         IN  IF Head(s) \in seps THEN << <<>> >> \o rest
             ELSE << <<Head(s)>> \o rest[1] >> \o Tail(rest)

\* whether walking the components from depth d below the workspace leaves it
RECURSIVE Climbs(_, _)
Climbs(parts, d) ==
    IF parts = <<>> THEN FALSE
    ELSE IF Head(parts) = <<".", ".">> THEN d = 0 \/ Climbs(Tail(parts), d - 1)
    ELSE IF Head(parts) \in {<<>>, <<".">>} THEN Climbs(Tail(parts), d)
    ELSE Climbs(Tail(parts), d + 1)

\* a Windows drive prefix 'C:'
HasDrive(plat, s) == plat = "nt" /\ Len(s) >= 2 /\ s[2] = ":"

\* WORKSPACE_DIR / filename names a file outside WORKSPACE_DIR: joining an
\* absolute or a drive path replaces the directory, '..' climbs out of it
Escapes(plat, s) ==
    \/ Len(s) > 0 /\ s[1] \in Separators(plat)
    \/ HasDrive(plat, s)
    \/ Climbs(SplitPath(Separators(plat), s), 0)

\* Path.suffix == '.py'
HasPySuffix(s) ==
    /\ Len(s) > 3
    /\ SubSeq(s, Len(s) - 2, Len(s)) = <<".", "p", "y">>
    /\ s[Len(s) - 3] \notin {"/", "\\"}

\* the names of the files the workspace can hold: it is a flat directory, so
\* a name with a directory in it names no file and cannot be created
WorkspaceNames == {A_PY, B_PY}

(***************************************************************************)
(* The world a script run acts on.  A handler takes a world w = [files,    *)
(* outside, ss, procs, log, stopped] and gives [w, ret, exc]: the world it *)
(* leaves, what it returns, and how it ends: "none" (it returns), "rerun"  *)
(* (st.rerun() raised: the script run is over) or "error" (an Exception    *)
(* left it).  log lists what the run did to subprocesses and the model     *)
(* API, stopped is the process stop_preview was called on.                 *)
(***************************************************************************)
Result(w, ret, exc) == [w |-> w, ret |-> ret, exc |-> exc]

Logged(w, entries) == [w EXCEPT !.log = @ \o entries]

\* the value of a local variable that is assigned once: {e : x \in {v}} is e
\* with the value v of the variable in place of x
Only(S) == CHOOSE x \in S : TRUE

\* Path.is_file(): a file outside the workspace is taken to exist
IsFile(plat, w, name) ==
    IF Escapes(plat, name) THEN TRUE
    ELSE name \in WorkspaceNames /\ w.files[name] # NoFile

\* the files get_workspace_python_files lists, as a set
get_workspace_python_files(fs) ==
    {n \in WorkspaceNames : fs[n] # NoFile /\ HasPySuffix(n)}

(***************************************************************************)
(* File system functions                                                    *)
(***************************************************************************)
\* what open(filepath, 'w') puts on disk for a text: text mode writes each
\* '\n' as the line separator of the platform
RECURSIVE TextWrite(_, _)
TextWrite(plat, s) ==
    IF s = <<>> THEN <<>>
    ELSE IF Head(s) = "\n" /\ plat = "nt"
    THEN <<"\r", "\n">> \o TextWrite(plat, Tail(s))
    ELSE <<Head(s)>> \o TextWrite(plat, Tail(s))

\* what open(filepath, 'r') gives for the text on disk: text mode reads
\* '\r\n' and a lone '\r' as '\n'
RECURSIVE TextRead(_)
TextRead(s) ==
    IF s = <<>> THEN <<>>
    ELSE IF Head(s) = "\r"
    THEN IF Len(s) >= 2 /\ s[2] = "\n"
         THEN <<"\n">> \o TextRead(Tail(Tail(s)))
         ELSE <<"\n">> \o TextRead(Tail(s))
    ELSE <<Head(s)>> \o TextRead(Tail(s))

read_file(plat, w, filename) ==
    IF ~Truthy(filename) THEN Result(w, None, "none")
    ELSE IF filename.k # "str" THEN Result(w, None, "error")
    ELSE IF InvalidPath(filename.v) THEN Result(w, None, "none")
    ELSE IF Escapes(plat, filename.v)
         THEN Result([w EXCEPT !.outside = @ \cup {[op |-> "read", name |-> filename.v]}],
                     Str(<<"outside">>), "none")
    ELSE IF filename.v \in WorkspaceNames /\ w.files[filename.v] # NoFile
         THEN Result(w, Str(TextRead(w.files[filename.v].v)), "none")
    ELSE Result(w, None, "none")

\* save_file with the bug of reporting success without writing the file
save_file_unwritten(plat, w, filename, content) ==
    IF ~Truthy(filename) THEN Result(w, False, "none")
    ELSE IF filename.k # "str" THEN Result(w, False, "error")
    ELSE IF InvalidPath(filename.v) THEN Result(w, False, "none")
    ELSE Result(w, Bool(content.k = "str"), "none")

\* open(filepath, 'w') creates or truncates the file before f.write(content)
\* runs, and f.write raises TypeError on anything but a string
save_file(plat, w, filename, content) ==
    IF ~Truthy(filename) THEN Result(w, False, "none")
    ELSE IF filename.k # "str" THEN Result(w, False, "error")
    ELSE IF InvalidPath(filename.v) THEN Result(w, False, "none")
    ELSE IF Escapes(plat, filename.v)
         THEN Result([w EXCEPT !.outside = @ \cup {[op |-> "write", name |-> filename.v]}],
                     Bool(content.k = "str"), "none")
    ELSE IF filename.v \notin WorkspaceNames THEN Result(w, False, "none")
    ELSE IF content.k # "str"
         THEN Result([w EXCEPT !.files[filename.v] = Str(<<>>)], False, "none")
    ELSE Result([w EXCEPT !.files[filename.v] = Str(TextWrite(plat, content.v))],
                True, "none")

(***************************************************************************)
(* Live preview process management                                          *)
(***************************************************************************)
\* the ports the operating system can hand out
Ports == {8501, 8502}

\* the process ids a spawned subprocess can get
MaxSpawns == 2
Pids == 1..MaxSpawns

NotSpawned == [status |-> "none", port |-> 0]

\* a subprocess that has exited holds no port
Exited == [status |-> "exited", port |-> 0]

Spawned(ps) == {p \in Pids : ps[p].status # "none"}
Running(ps) == {p \in Pids : ps[p].status = "running"}

\* what the operating system and the subprocess do during one stop_preview
StopEnvs ==
    [term : {"ok", "ProcessLookupError", "error"},
     wait3 : {"exited", "TimeoutExpired"},
     poll2 : {"running", "exited"},
     kill : {"ok", "ProcessLookupError", "error"},
     wait1 : {"exited", "TimeoutExpired"}]

\* StopAttempt with the bug of killing at once, with no terminate and no wait
StopAttemptKillFirst(status, env) ==
    IF status # "running"
    THEN [log |-> <<"poll:exited">>, status |-> status]
    ELSE [log |-> <<"poll:running", "kill", "wait1:exited">>, status |-> "exited"]

\* the try block of stop_preview on a process with the given status: the
\* calls made on the process, in order, and the status it is left in
StopAttempt(status, env) ==
    IF status # "running"
    THEN [log |-> <<"poll:exited">>, status |-> status]
    ELSE IF env.term = "ProcessLookupError"
    THEN [log |-> <<"poll:running", "terminate", "ProcessLookupError">>,
          status |-> "exited"]
    ELSE IF env.term = "error"
    THEN [log |-> <<"poll:running", "terminate", "Exception">>,
          status |-> "running"]
    ELSE IF env.wait3 = "exited"
    THEN [log |-> <<"poll:running", "terminate", "wait3:exited">>,
          status |-> "exited"]
    ELSE IF env.poll2 = "exited"
    THEN [log |-> <<"poll:running", "terminate", "wait3:TimeoutExpired",
                    "poll:exited">>,
          status |-> "exited"]
    ELSE IF env.kill = "ProcessLookupError"
    THEN [log |-> <<"poll:running", "terminate", "wait3:TimeoutExpired",
                    "poll:running", "kill", "ProcessLookupError">>,
          status |-> "exited"]
    ELSE IF env.kill = "error"
    THEN [log |-> <<"poll:running", "terminate", "wait3:TimeoutExpired",
                    "poll:running", "kill", "Exception">>,
          status |-> "running"]
    ELSE IF env.wait1 = "exited"
    THEN [log |-> <<"poll:running", "terminate", "wait3:TimeoutExpired",
                    "poll:running", "kill", "wait1:exited">>,
          status |-> "exited"]
    ELSE [log |-> <<"poll:running", "terminate", "wait3:TimeoutExpired",
                    "poll:running", "kill", "wait1:TimeoutExpired", "Exception">>,
          status |-> "running"]

\* ClearPreview with the bug of leaving the previewed file's name behind
ClearPreviewKeepFile(ss) ==
    [ss EXCEPT !.preview_process = None, !.preview_port = None,
               !.preview_url = None]

\* the four preview fields after "Always clear the preview state variables"
ClearPreview(ss) ==
    [ss EXCEPT !.preview_process = None, !.preview_port = None,
               !.preview_url = None, !.preview_file = None]

\* stop_preview always ends in st.rerun(), which raises out of the script run
stop_preview(w, env) ==
    LET p == w.ss.preview_process
        tried == IF p.k = "proc"
                 THEN LET a == StopAttempt(w.procs[p.v[1]].status, env)
                      IN  [w EXCEPT !.procs[p.v[1]] =
                                        IF a.status = "exited" THEN Exited ELSE @,
                                    !.log = @ \o <<"stop_preview">> \o a.log,
                                    !.stopped = p]
                 ELSE Logged(w, <<"stop_preview">>)
    IN  Result([tried EXCEPT !.ss = ClearPreview(@)], None, "rerun")

\* delete_file; stop_preview's st.rerun() is no Exception, so it leaves
\* delete_file through its "except Exception" before the selection is cleared
delete_file(plat, w, filename, env) ==
    IF ~Truthy(filename) THEN Result(w, False, "none")
    ELSE IF filename.k # "str" THEN Result(w, False, "error")
    ELSE IF InvalidPath(filename.v) THEN Result(w, False, "none")
    ELSE IF ~IsFile(plat, w, filename.v) THEN Result(w, False, "none")
    ELSE Only({
         IF removed.ss.preview_file = filename
         THEN stop_preview(removed, env)
         ELSE IF removed.ss.selected_file = filename
         THEN Result([removed EXCEPT !.ss.selected_file = None,
                                     !.ss.file_content_on_load = Str(<<>>),
                                     !.ss.editor_unsaved_content = Str(<<>>),
                                     !.ss.last_saved_content = Str(<<>>)],
                     True, "none")
         ELSE Result(removed, True, "none")
         : removed \in {IF Escapes(plat, filename.v)
                        THEN [w EXCEPT !.outside =
                                  @ \cup {[op |-> "delete", name |-> filename.v]}]
                        ELSE [w EXCEPT !.files[filename.v] = NoFile]}})

\* the URL of the first port, whatever port the subprocess was given
UrlOfFirstPort(port) == Str(<<"http://localhost:", ToString(8501)>>)

\* f'http://localhost:{port}'
UrlOf(port) == Str(<<"http://localhost:", ToString(port)>>)

\* what the operating system and the subprocess do during one start_preview
StartEnvs == [port : Ports, spawn : {"ok", "error"}, alive : BOOLEAN]

\* start_preview with the bug of skipping the poll() after the delay: the
\* process is recorded whether or not it is still running
start_preview_unchecked(plat, w, python_filename, env, stopenv) ==
    IF ~IsFile(plat, w, python_filename) \/ ~HasPySuffix(python_filename)
    THEN Result(w, False, "none")
    ELSE IF env.spawn = "error" \/ Spawned(w.procs) = Pids
    THEN Result([w EXCEPT !.ss.preview_process = None, !.log = @ \o <<"Popen:error">>],
                False, "none")
    ELSE LET pid == CHOOSE p \in Pids : p \notin Spawned(w.procs)
         IN  Result([w EXCEPT !.procs[pid] = IF env.alive
                                             THEN [status |-> "running", port |-> env.port]
                                             ELSE Exited,
                              !.log = @ \o <<"Popen", IF env.alive THEN "poll:running"
                                                      ELSE "poll:exited">>,
                              !.ss.preview_process = Proc(pid),
                              !.ss.preview_port = IntV(env.port),
                              !.ss.preview_url = UrlOf(env.port),
                              !.ss.preview_file = Str(python_filename)],
                    True, "none")

\* start_preview(python_filename): ret is its return value
start_preview(plat, w, python_filename, env, stopenv) ==
    IF ~IsFile(plat, w, python_filename) \/ ~HasPySuffix(python_filename)
    THEN Result(w, False, "none")
    ELSE IF Truthy(w.ss.preview_process)
    THEN stop_preview(w, stopenv)
    ELSE IF env.spawn = "error" \/ Spawned(w.procs) = Pids
    THEN Result([w EXCEPT !.ss.preview_process = None, !.log = @ \o <<"Popen:error">>],
                False, "none")
    ELSE LET pid == CHOOSE p \in Pids :
                        /\ p \notin Spawned(w.procs)
                        /\ \A q \in Pids : q < p => q \in Spawned(w.procs)
             proc == IF env.alive THEN [status |-> "running", port |-> env.port]
                     ELSE Exited
             spawned == [w EXCEPT !.procs[pid] = proc,
                                  !.log = @ \o <<"Popen", IF env.alive
                                                          THEN "poll:running"
                                                          ELSE "poll:exited">>]
         IN  IF env.alive
             THEN Result([spawned EXCEPT
                              !.ss.preview_process = Proc(pid),
                              !.ss.preview_port = IntV(env.port),
                              !.ss.preview_url = UrlOf(env.port),
                              !.ss.preview_file = Str(python_filename)],
                         True, "none")
             ELSE Result([spawned EXCEPT !.ss.preview_process = None],
                         False, "none")

(***************************************************************************)
(* AI interaction functions.  A response text is [open, body, close]: an   *)
(* opening code fence or '', the JSON document or garbage between, and a   *)
(* closing fence or ''.  A JSON document is [t, items]: a list of items, a *)
(* dict, or "bad" for text that is no JSON.                                *)
(***************************************************************************)
Cmd(action, filename, content) ==
    [dict |-> TRUE, action |-> action, filename |-> filename, content |-> content]

\* a list item that is no dict
NonDict == [dict |-> FALSE, action |-> None, filename |-> None, content |-> None]

\* {'action': 'chat', 'content': ...}
Chat(content) == Cmd(Str(<<"chat">>), None, Str(content))

JsonList(items) == [t |-> "list", items |-> items]
JsonDict == [t |-> "dict", items |-> <<>>]
NotJson == [t |-> "bad", items |-> <<>>]

\* the code fences: three backticks followed by json, and three backticks
FENCE_JSON == "<fence>json"
FENCE == "<fence>"

Text(open, body, close) == [open |-> open, body |-> body, close |-> close]

\* a value inside an f-string
Fmt(x) == IF x.k = "str" THEN x.v ELSE IF x.k = "none" THEN <<"None">> ELSE <<"7">>

\* a text inside an f-string
FmtText(text) ==
    <<text.open, IF text.body.t = "list" THEN "[" \o ToString(Len(text.body.items)) \o "]"
                 ELSE text.body.t, text.close>>

\* text[7:-3] and text[3:-3] cut the last three characters whether or not they
\* are a fence: without a closing fence the cut takes the end of the document
_clean_ai_response_text(text) ==
    IF text.open \in {FENCE_JSON, FENCE}
    THEN IF text.close = FENCE THEN Text("", text.body, "")
         ELSE Text("", NotJson, "")
    ELSE text

\* json.loads: [ok, value]; ok is FALSE for JSONDecodeError
json_loads(text) ==
    IF text.open = "" /\ text.close = "" /\ text.body.t # "bad"
    THEN [ok |-> TRUE, value |-> text.body]
    ELSE [ok |-> FALSE, value |-> NotJson]

json_dumps(value) == Text("", value, "")


\* the editor keeps the user's text: only the two saved contents are set
LoadIntoEditorKeepEdits(w, content) ==
    [w EXCEPT !.ss.file_content_on_load = content,
              !.ss.last_saved_content = content]

\* the file open in the editor was saved: the editor shows the new content
LoadIntoEditor(w, content) ==
    [w EXCEPT !.ss.file_content_on_load = content,
              !.ss.last_saved_content = content,
              !.ss.editor_unsaved_content = content]

\* one pass of the loop body of parse_and_execute_ai_commands: ret is what
\* it appends to executed_commands_list
ExecuteCommand(plat, w, command_data, env) ==
    IF ~command_data.dict
    THEN Result(w, <<Chat(<<"AI Error: Invalid command format">>)>>, "none")
    ELSE
    LET action == command_data.action
        filename == command_data.filename
        content == command_data.content
    IN  IF action = Str(<<"create_update">>)
        THEN IF Truthy(filename) /\ content.k # "none"
             THEN Only({
                  IF saved.exc # "none"
                  THEN Result(saved.w, <<command_data>>, saved.exc)
                  ELSE IF saved.ret = True
                  THEN IF saved.w.ss.selected_file = filename
                       THEN Result(LoadIntoEditor(saved.w, content),
                                   <<command_data>>, "none")
                       ELSE Result(saved.w, <<command_data>>, "none")
                  ELSE Result(saved.w,
                              <<command_data,
                                Chat(<<"Error: Failed saving ">> \o Fmt(filename))>>,
                              "none")
                  : saved \in {save_file(plat, w, filename, content)}})
             ELSE Result(w, <<command_data, Chat(<<"AI Warning: Invalid create_update">>)>>,
                         "none")
        ELSE IF action = Str(<<"delete">>)
        THEN IF Truthy(filename)
             THEN Only({
                  IF deleted.exc # "none"
                  THEN Result(deleted.w, <<command_data>>, deleted.exc)
                  ELSE IF deleted.ret = True
                  THEN Result(deleted.w, <<command_data>>, "none")
                  ELSE Result(deleted.w,
                              <<command_data,
                                Chat(<<"Error: Failed deleting ">> \o Fmt(filename))>>,
                              "none")
                  : deleted \in {delete_file(plat, w, filename, env)}})
             ELSE Result(w, <<command_data, Chat(<<"AI Warning: Invalid delete">>)>>, "none")
        ELSE IF action = Str(<<"chat">>)
        THEN Result(w, <<command_data>>, "none")
        ELSE Result(w,
                    <<command_data,
                      Chat(<<"AI Warning: Unknown action '">> \o Fmt(action) \o <<"'">>)>>,
                    "none")

\* the for loop over commands: an Exception ends it in the handler that
\* returns one chat record, st.rerun() ends the script run
RECURSIVE ExecuteCommands(_, _, _, _, _)
ExecuteCommands(plat, w, commands, executed_commands_list, env) ==
    IF commands = <<>> THEN Result(w, executed_commands_list, "none")
    ELSE Only({
         IF one.exc = "rerun"
         THEN Result(one.w, executed_commands_list \o one.ret, "rerun")
         ELSE IF one.exc = "error"
         THEN Result(one.w, <<Chat(<<"Error processing commands">>)>>, "none")
         ELSE ExecuteCommands(plat, one.w, Tail(commands),
                              executed_commands_list \o one.ret, env)
         : one \in {ExecuteCommand(plat, w, Head(commands), env)}})

\* parse_and_execute_ai_commands with the bug of not checking that the
\* parsed document is a list
parse_any_json(plat, w, ai_response_text, env) ==
    IF ~json_loads(_clean_ai_response_text(ai_response_text)).ok
    THEN Result(w, <<Chat(<<"AI Error: Invalid JSON received. Response: ">>
                          \o FmtText(ai_response_text))>>, "none")
    ELSE ExecuteCommands(plat, w,
                         json_loads(_clean_ai_response_text(ai_response_text)).value.items,
                         <<>>, env)

parse_and_execute_ai_commands(plat, w, ai_response_text, env) ==
    LET cleaned_text == _clean_ai_response_text(ai_response_text)
        parsed == json_loads(cleaned_text)
    IN  IF ~parsed.ok
        THEN Result(w, <<Chat(<<"AI Error: Invalid JSON received. Response: ">>
                              \o FmtText(ai_response_text))>>, "none")
        ELSE IF parsed.value.t # "list"
        THEN Result(w, <<Chat(<<"AI Error: Response was not a list. Response: ">>
                              \o FmtText(cleaned_text))>>, "none")
        ELSE ExecuteCommands(plat, w, parsed.value.items, <<>>, env)

\* how a call of model.generate_content ends: it returns a text, or raises
Returns(text) == [raises |-> "", text |-> text]
Raises(error) == [raises |-> error, text |-> Text("", NotJson, "")]

\* the errors of the call: the quota is exhausted, the response is blocked
\* (response.text raises), or anything else
ApiErrors == {"quota", "blocked", "other"}

\* the message ask_gemini_ai makes of an error
error_content(error) ==
    IF error = "blocked"
    THEN <<"Erro da IA: Entrada bloqueada por filtros de seguranca">>
    ELSE IF error = "quota"
    THEN <<"Erro da IA: Cota ou Limite de Taxa da API Excedido.">>
    ELSE <<"Erro da IA: ", error>>

\* ask_gemini_ai with the bug of calling the model again after an error
ask_gemini_ai_retrying(w, api) ==
    IF api.raises # ""
    THEN Result(Logged(w, <<"generate_content", "generate_content">>),
                json_dumps(JsonList(<<Chat(error_content(api.raises))>>)), "none")
    ELSE Result(Logged(w, <<"generate_content">>), api.text, "none")

\* ask_gemini_ai: one generate_content call, which ends as api says
ask_gemini_ai(w, api) ==
    IF api.raises # ""
    THEN Result(Logged(w, <<"generate_content">>),
                json_dumps(JsonList(<<Chat(error_content(api.raises))>>)), "none")
    ELSE Result(Logged(w, <<"generate_content">>), api.text, "none")

(***************************************************************************)
(* The script.  Streamlit runs it from the top on every user event and on  *)
(* every st.rerun(); an event is what one widget returns in that run.      *)
(***************************************************************************)
Message(role, content) == [role |-> role, content |-> content]

\* a list of commands as the content of an assistant message
ListV(items) == [k |-> "list", v |-> items]

\* the chat input handler of the sidebar; st.rerun() ends it
ChatInputHandler(plat, w, user_prompt, api, env) ==
    LET said == [w EXCEPT !.ss.messages = Append(@, Message("user", Str(user_prompt)))]
    IN  Only({
        IF done.exc = "rerun" THEN Result(done.w, None, "rerun")
        ELSE Result([done.w EXCEPT !.ss.messages =
                                       Append(@, Message("assistant", ListV(done.ret)))],
                    ListV(done.ret), "rerun")
        : done \in {parse_and_execute_ai_commands(plat, asked.w, asked.ret, env)
                    : asked \in {ask_gemini_ai(said, api)}}})

\* the Workspace tab: the file selector, the editor and its buttons
WorkspaceTab(plat, w, event) ==
    LET python_files == get_workspace_python_files(w.files)
        current_selection_in_state == w.ss.selected_file
        newly_selected_filename ==
            IF event.op = "select" THEN event.file
            ELSE IF current_selection_in_state.k = "str"
                    /\ current_selection_in_state.v \in python_files
            THEN current_selection_in_state
            ELSE None
    IN  IF newly_selected_filename # current_selection_in_state
        THEN Only({
             Only({
             Result([read.w EXCEPT !.ss.selected_file = newly_selected_filename,
                                   !.ss.file_content_on_load = file_content,
                                   !.ss.editor_unsaved_content = file_content,
                                   !.ss.last_saved_content = file_content],
                    None, "rerun")
             : file_content \in {IF ~Truthy(newly_selected_filename) THEN Str(<<>>)
                                 ELSE IF read.ret = None
                                 THEN Str(<<"# ERROR: Could not read file '">>
                                          \o newly_selected_filename.v \o <<"'">>)
                                 ELSE read.ret}})
             : read \in {read_file(plat, w, newly_selected_filename)}})
        ELSE IF ~Truthy(w.ss.selected_file) THEN Result(w, None, "none")
        ELSE
        LET selected_filename == w.ss.selected_file
            editor_current_text ==
                IF event.op = "edit" THEN Str(event.text)
                ELSE w.ss.editor_unsaved_content
            has_unsaved_changes == editor_current_text # w.ss.last_saved_content
        IN  IF editor_current_text # w.ss.editor_unsaved_content
            THEN Result([w EXCEPT !.ss.editor_unsaved_content = editor_current_text],
                        None, "rerun")
            ELSE IF event.op = "save" /\ has_unsaved_changes
            THEN Only({
                 IF saved.ret = True
                 THEN Result([saved.w EXCEPT
                                  !.ss.file_content_on_load = editor_current_text,
                                  !.ss.last_saved_content = editor_current_text],
                             True, "rerun")
                 ELSE Result(saved.w, False, "none")
                 : saved \in {save_file(plat, w, selected_filename, editor_current_text)}})
            ELSE IF event.op = "delete"
            THEN Only({
                 IF deleted.exc = "rerun" THEN deleted
                 ELSE IF deleted.ret = True THEN Result(deleted.w, True, "rerun")
                 ELSE deleted
                 : deleted \in {delete_file(plat, w, selected_filename, event.stopenv)}})
            ELSE Result(w, None, "none")

\* s.endswith('.py')
EndsWithPy(s) == Len(s) >= 3 /\ SubSeq(s, Len(s) - 2, Len(s)) = <<".", "p", "y">>

\* PreviewTab with the bug of a preview window that never polls the process
PreviewTabBlind(plat, w, event) ==
    IF event.op = "run" /\ Truthy(w.ss.selected_file) /\ EndsWithPy(w.ss.selected_file.v)
       /\ w.ss.preview_process = None
    THEN Only({IF started.exc = "none" /\ started.ret = True
               THEN Result(started.w, True, "rerun")
               ELSE started
               : started \in {start_preview(plat, w, w.ss.selected_file.v,
                                            event.startenv, event.stopenv)}})
    ELSE Result(w, None, "none")

\* the Live Preview tab: the Run and Stop buttons, then the preview window,
\* which polls the tracked process and calls stop_preview when it has exited
PreviewTab(plat, w, event) ==
    LET is_preview_running == w.ss.preview_process # None
        file_being_previewed == w.ss.preview_file
        selected_file_for_preview == w.ss.selected_file
        run_enabled == /\ Truthy(selected_file_for_preview)
                       /\ EndsWithPy(selected_file_for_preview.v)
                       /\ ~is_preview_running
        stop_enabled ==
            IF ~Truthy(selected_file_for_preview) THEN is_preview_running
            ELSE /\ EndsWithPy(selected_file_for_preview.v)
                 /\ is_preview_running
                 /\ file_being_previewed = selected_file_for_preview
    IN  Only({
        IF controls.exc # "none" THEN controls
        ELSE IF is_preview_running /\ file_being_previewed = selected_file_for_preview
        THEN LET live_process == controls.w.ss.preview_process
             IN  IF live_process.k = "proc"
                    /\ controls.w.procs[live_process.v[1]].status = "running"
                 THEN Result(Logged(controls.w, <<"poll:running">>), controls.ret, "none")
                 ELSE IF live_process.k = "proc"
                 THEN LET stopped == stop_preview(Logged(controls.w, <<"poll:exited">>),
                                                  event.stopenv)
                      IN  Result(stopped.w, controls.ret, "rerun")
                 ELSE controls
        ELSE controls
        : controls \in {
            IF event.op = "run" /\ run_enabled
            THEN Only({IF started.exc = "none" /\ started.ret = True
                       THEN Result(started.w, True, "rerun")
                       ELSE started
                       : started \in {start_preview(plat, w, selected_file_for_preview.v,
                                                    event.startenv, event.stopenv)}})
            ELSE IF event.op = "stop" /\ stop_enabled
            THEN stop_preview(w, event.stopenv)
            ELSE Result(w, None, "none")}})

\* one run of the script on an event
RunScript(plat, w, tab, event) ==
    IF event.op = "chat"
    THEN ChatInputHandler(plat, w, event.prompt, event.api, event.stopenv)
    ELSE IF tab = "Workspace" THEN WorkspaceTab(plat, w, event)
    ELSE PreviewTab(plat, w, event)

(***************************************************************************)
(* Inputs                                                                  *)
(***************************************************************************)
\* the outcomes of one stop_preview: a later call is "ok"/"exited" when an
\* earlier one already decides the attempt
StopOutcomes ==
    {e \in StopEnvs :
        /\ e.term # "ok" => e.wait3 = "exited"
        /\ e.wait3 = "exited" => e.poll2 = "exited"
        /\ e.poll2 = "exited" => e.kill = "ok"
        /\ e.kill # "ok" => e.wait1 = "exited"}

\* the process exits as soon as it is asked to terminate
CleanStop == CHOOSE e \in StopOutcomes : e.term = "ok" /\ e.wait3 = "exited"

\* the outcomes among stops that matter to a run from session state ss
StopChoices(stops, ss) ==
    IF ss.preview_process.k = "proc" THEN stops ELSE {CleanStop}

\* the subprocess starts, stays up and gets the first port
CleanStarts == {e \in StartEnvs : e.spawn = "ok" /\ e.alive /\ e.port = 8501}

CREATE_UPDATE == Str(<<"create_update">>)
DELETE == Str(<<"delete">>)
Y == Str(<<"y">>)

\* a content with a Windows line ending in it
CRLF == Str(<<"y", "\r", "\n", "z">>)

\* the lists of commands the model answers with
CommandLists ==
    {<<Cmd(CREATE_UPDATE, Str(A_PY), Y), Chat(<<"done">>)>>,
     <<Cmd(DELETE, Str(A_PY), None), Cmd(CREATE_UPDATE, Str(B_PY), Str(<<>>))>>,
     <<Cmd(CREATE_UPDATE, Str(A_PY), Other), Cmd(CREATE_UPDATE, Str(B_PY), Y)>>,
     <<Cmd(DELETE, Other, None), Cmd(CREATE_UPDATE, Str(B_PY), Y)>>,
     <<Cmd(CREATE_UPDATE, None, Y), Cmd(DELETE, Str(<<>>), None),
       Cmd(Str(<<"rename">>), Str(A_PY), Y), Cmd(CREATE_UPDATE, Str(A_PY), None)>>,
     <<NonDict, Cmd(DELETE, Str(B_PY), None)>>,
     <<Cmd(CREATE_UPDATE, Str(UP_A_PY), Y), Cmd(DELETE, Str(ABS_A_PY), None),
       Cmd(DELETE, Str(BS_A_PY), None)>>,
     <<Cmd(CREATE_UPDATE, Str(DRIVE_C), Y)>>,
     <<Cmd(CREATE_UPDATE, Str(B_PY), CRLF)>>,
     <<Cmd(DELETE, Str(DRIVE_C), None)>>}

\* the texts the model answers with: the lists bare, one list fenced, one
\* fenced without its closing fence, a dict, and text that is no JSON
Responses ==
    {Text("", JsonList(items), "") : items \in CommandLists}
    \cup {Text(FENCE_JSON, JsonList(<<Cmd(DELETE, Str(B_PY), None)>>), FENCE),
          Text(FENCE, JsonList(<<Cmd(DELETE, Str(B_PY), None)>>), ""),
          Text("", JsonDict, ""),
          Text("", NotJson, "")}

\* how the calls of the model end: with any of the texts, or raising
ApiOutcomes == {Returns(t) : t \in Responses} \cup {Raises(e) : e \in ApiErrors}

\* how they end in the run of the preview supervisor
FewApiOutcomes ==
    {Returns(Text("", JsonList(<<Cmd(DELETE, Str(A_PY), None),
                                 Cmd(CREATE_UPDATE, Str(B_PY), Y)>>), "")),
     Raises("quota")}

\* what the user types into the editor
EditorTexts == {<<"u">>}

\* the number of prompts the user sends
MaxPrompts == 1

UserMessages(ss) == {i \in 1..Len(ss.messages) : ss.messages[i].role = "user"}

(***************************************************************************)
(* The state machine                                                       *)
(***************************************************************************)
InitialSessionState ==
    [messages |-> <<>>, selected_file |-> None, file_content_on_load |-> Str(<<>>),
     preview_process |-> None, preview_port |-> None, preview_url |-> None,
     preview_file |-> None, editor_unsaved_content |-> Str(<<>>),
     last_saved_content |-> Str(<<>>)]

\* the workspace directory outlives the sessions: here it starts with two files
InitialFiles ==
    {f \in [WorkspaceNames -> {NoFile, Str(<<"x">>)}] :
        f[A_PY] # NoFile /\ f[B_PY] # NoFile}

\* what ev holds after a script run that has nothing to report
Quiet == [op |-> "quiet", input |-> None, log |-> <<>>, ret |-> None, exc |-> "none",
          stopped |-> None]

InitOn(platforms) ==
    /\ platform \in platforms
    /\ files \in InitialFiles
    /\ outside = {}
    /\ session_state = InitialSessionState
    /\ procs = [p \in Pids |-> NotSpawned]
    /\ selected_tab = "Workspace"
    /\ rerun_pending = FALSE
    /\ api_calls = 0
    /\ ev = Quiet

World == [files |-> files, outside |-> outside, ss |-> session_state,
          procs |-> procs, log |-> <<>>, stopped |-> None]

Count(log, entry) == Cardinality({i \in 1..Len(log) : log[i] = entry})

\* the variables after a script run on event that ended as r
Ran(event, input, r) ==
    /\ files' = r.w.files
    /\ outside' = r.w.outside
    /\ session_state' = r.w.ss
    /\ procs' = r.w.procs
    /\ rerun_pending' = (r.exc = "rerun")
    /\ api_calls' = api_calls + Count(r.w.log, "generate_content")
    /\ ev' = IF r.w.log = <<>> /\ event.op \notin {"chat", "delete", "run", "stop"}
             THEN Quiet
             ELSE [op |-> event.op, input |-> input, log |-> r.w.log, ret |-> r.ret,
                   exc |-> r.exc, stopped |-> r.w.stopped]
    /\ UNCHANGED platform

SelectionListed ==
    /\ session_state.selected_file.k = "str"
    /\ session_state.selected_file.v \in get_workspace_python_files(files)

\* the user sends a prompt; the model answers with a text or the call raises
ChatInput(apis, stops) ==
    /\ ~rerun_pending
    /\ Cardinality(UserMessages(session_state)) < MaxPrompts
    /\ \E api \in apis,
          env \in StopChoices(stops, session_state) :
          LET event == [op |-> "chat", prompt |-> <<"prompt">>, api |-> api,
                        stopenv |-> env]
          IN  /\ \E r \in {RunScript(platform, World, selected_tab, event)} :
                  Ran(event, api, r)
              /\ UNCHANGED selected_tab

\* the user switches to the other tab
SelectTab(stops) ==
    /\ ~rerun_pending
    /\ \E tab \in {"Workspace", "Preview"} \ {selected_tab},
          env \in StopChoices(stops, session_state) :
          LET event == [op |-> "tab", stopenv |-> env]
          IN  /\ selected_tab' = tab
              /\ \E r \in {RunScript(platform, World, tab, event)} :
                  Ran(event, None, r)

\* the user picks another entry of the file selector
SelectFile ==
    /\ ~rerun_pending
    /\ selected_tab = "Workspace"
    /\ \E f \in {None} \cup {Str(n) : n \in get_workspace_python_files(files)} :
          /\ f # session_state.selected_file
          /\ LET event == [op |-> "select", file |-> f, stopenv |-> CleanStop]
             IN  \E r \in {RunScript(platform, World, selected_tab, event)} :
                  Ran(event, f, r)
    /\ UNCHANGED selected_tab

\* the user changes the text in the editor
EditText ==
    /\ ~rerun_pending
    /\ selected_tab = "Workspace"
    /\ SelectionListed
    /\ \E t \in EditorTexts :
          /\ Str(t) # session_state.editor_unsaved_content
          /\ LET event == [op |-> "edit", text |-> t, stopenv |-> CleanStop]
             IN  \E r \in {RunScript(platform, World, selected_tab, event)} :
                  Ran(event, Str(t), r)
    /\ UNCHANGED selected_tab

\* the user clicks Save Changes, enabled when there are unsaved changes
ClickSave ==
    /\ ~rerun_pending
    /\ selected_tab = "Workspace"
    /\ SelectionListed
    /\ session_state.editor_unsaved_content # session_state.last_saved_content
    /\ LET event == [op |-> "save", stopenv |-> CleanStop]
       IN  \E r \in {RunScript(platform, World, selected_tab, event)} :
                  Ran(event, None, r)
    /\ UNCHANGED selected_tab

\* the user clicks Delete File and confirms
ClickDelete(stops) ==
    /\ ~rerun_pending
    /\ selected_tab = "Workspace"
    /\ SelectionListed
    /\ \E env \in StopChoices(stops, session_state) :
          LET event == [op |-> "delete", stopenv |-> env]
          IN  \E r \in {RunScript(platform, World, selected_tab, event)} :
                  Ran(event, session_state.selected_file, r)
    /\ UNCHANGED selected_tab

\* the user clicks Run Preview, enabled when no preview is tracked
ClickRun(starts) ==
    /\ ~rerun_pending
    /\ selected_tab = "Preview"
    /\ Truthy(session_state.selected_file)
    /\ EndsWithPy(session_state.selected_file.v)
    /\ session_state.preview_process = None
    /\ \E startenv \in starts :
          LET event == [op |-> "run", startenv |-> startenv, stopenv |-> CleanStop]
          IN  \E r \in {RunScript(platform, World, selected_tab, event)} :
                  Ran(event, session_state.selected_file, r)
    /\ UNCHANGED selected_tab

\* the user clicks one of the two Stop Preview buttons
ClickStop(stops) ==
    /\ ~rerun_pending
    /\ selected_tab = "Preview"
    /\ session_state.preview_process # None
    /\ \/ ~Truthy(session_state.selected_file)
       \/ /\ EndsWithPy(session_state.selected_file.v)
          /\ session_state.preview_file = session_state.selected_file
    /\ \E env \in StopChoices(stops, session_state) :
          LET event == [op |-> "stop", stopenv |-> env]
          IN  \E r \in {RunScript(platform, World, selected_tab, event)} :
                  Ran(event, None, r)
    /\ UNCHANGED selected_tab

\* the script runs with no widget changed: a queued st.rerun(), or the user
\* asking for a rerun
Rerun(stops) ==
    /\ \E env \in StopChoices(stops, session_state) :
          LET event == [op |-> "rerun", stopenv |-> env]
          IN  \E r \in {RunScript(platform, World, selected_tab, event)} :
                  Ran(event, None, r)
    /\ UNCHANGED selected_tab

\* a subprocess exits on its own
ProcExit ==
    /\ \E p \in Running(procs) :
          /\ procs' = [procs EXCEPT ![p] = Exited]
          /\ ev' = [Quiet EXCEPT !.op = "exit"]
    /\ UNCHANGED <<platform, files, outside, session_state, selected_tab,
                   rerun_pending, api_calls>>

(***************************************************************************)
(* Spec: the preview supervisor and what acts on it, on POSIX: the tabs,   *)
(* the file selector, the Delete, Run and Stop buttons, the chat with      *)
(* FewApiOutcomes, and the subprocesses exiting on their own.              *)
(***************************************************************************)
Init == InitOn({"posix"})

Next ==
    \/ ChatInput(FewApiOutcomes, StopOutcomes)
    \/ SelectTab(StopOutcomes)
    \/ SelectFile
    \/ ClickDelete(StopOutcomes)
    \/ ClickRun(StartEnvs)
    \/ ClickStop(StopOutcomes)
    \/ Rerun(StopOutcomes)
    \/ ProcExit

Spec == Init /\ [][Next]_vars

(***************************************************************************)
(* SpecAI: the command interpreter and the editor on either platform, the  *)
(* chat with ApiOutcomes; previews start and stop cleanly.                 *)
(***************************************************************************)
InitAI == InitOn(Platforms)

NextAI ==
    \/ ChatInput(ApiOutcomes, {CleanStop})
    \/ SelectTab({CleanStop})
    \/ SelectFile
    \/ EditText
    \/ ClickSave
    \/ ClickRun(CleanStarts)
    \/ Rerun({CleanStop})

SpecAI == InitAI /\ [][NextAI]_vars

(***************************************************************************)
(* SpecLive: a preview that is started and left alone: the user switches   *)
(* tabs, selects files and starts previews but presses no stop control,    *)
(* and the subprocess exits on its own.  The script keeps being run: a     *)
(* queued or requested rerun happens, and so does a pending selection.     *)
(***************************************************************************)
NextLive ==
    \/ SelectTab({CleanStop})
    \/ SelectFile
    \/ ClickRun(StartEnvs)
    \/ Rerun({CleanStop})
    \/ ProcExit

SpecLive ==
    /\ Init
    /\ [][NextLive]_vars
    /\ WF_vars(Rerun({CleanStop}))
    /\ WF_vars(SelectFile)

(***************************************************************************)
(* SpecFiles: the files of the workspace, on both platforms: the user      *)
(* selects, edits and saves files on the Workspace tab, and the AI answers *)
(* with commands on files of the workspace.                                *)
(***************************************************************************)
\* the lists whose commands all name a file of the workspace
FileCommandLists ==
    {commands \in CommandLists :
        \A i \in 1..Len(commands) :
            \/ commands[i].action = Str(<<"chat">>)
            \/ commands[i].filename \in {Str(n) : n \in WorkspaceNames}}

FileApiOutcomes == {Returns(Text("", JsonList(items), "")) : items \in FileCommandLists}

NextFiles ==
    \/ ChatInput(FileApiOutcomes, {CleanStop})
    \/ SelectFile
    \/ EditText
    \/ ClickSave
    \/ Rerun({CleanStop})

SpecFiles == InitAI /\ [][NextFiles]_vars

(***************************************************************************)
(* The claims                                                              *)
(***************************************************************************)
\* the preview supervisor is idle: the four preview fields are None
Idle(ss) ==
    /\ ss.preview_process = None
    /\ ss.preview_port = None
    /\ ss.preview_url = None
    /\ ss.preview_file = None

\* the last script run called stop_preview
StopRan == Count(ev.log, "stop_preview") > 0

\* C1: at most one preview subprocess is running, and a running one is the
\* process tracked in session state.
C1_AtMostOnePreview ==
    /\ Cardinality(Running(procs)) <= 1
    /\ \A p \in Running(procs) : session_state.preview_process = Proc(p)

\* the file names the path check is there to reject
RejectedNames == {UP_A_PY, ABS_A_PY, BS_A_PY}

\* C2: a filename that contains '..' or starts with '/' or a backslash makes
\* read_file return None and save_file and delete_file return False with
\* nothing read, written or removed, and no file outside the workspace
\* directory has been read, written or deleted.
C2_StaysInWorkspace ==
    /\ \A n \in RejectedNames :
          /\ InvalidPath(n)
          /\ read_file(platform, World, Str(n)) = Result(World, None, "none")
          /\ save_file(platform, World, Str(n), Y) = Result(World, False, "none")
          /\ delete_file(platform, World, Str(n), CleanStop)
                 = Result(World, False, "none")
    /\ outside = {}

\* C3: start_preview called while idle returns True and records the process,
\* its port, its URL and the file exactly when the subprocess was spawned and
\* poll() found it running after the delay; otherwise it returns False and
\* the session stays idle.
C3_StartFromIdle ==
    ev.op = "run" =>
        /\ ev.ret \in {True, False}
        /\ ev.ret = True <=> (ev.log = <<"Popen", "poll:running">>)
        /\ ev.ret = True =>
              /\ session_state.preview_process.k = "proc"
              /\ LET proc == procs[session_state.preview_process.v[1]]
                 IN  /\ proc.status = "running"
                     /\ session_state.preview_port = IntV(proc.port)
                     /\ session_state.preview_url = UrlOf(proc.port)
              /\ session_state.preview_file = ev.input
        /\ ev.ret = False => Idle(session_state)

\* C3 witness: a start from idle has recorded a running process
C3_Started == ev.op = "run" /\ ev.ret = True /\ ~Idle(session_state)

\* C4: after stop_preview has run the four preview fields are None, whatever
\* the outcome of the stop attempt.
C4_StopClears == StopRan => Idle(session_state)

\* C4 witness: stop_preview has run and its attempt ended in an exception
C4_StopFailed == StopRan /\ Count(ev.log, "Exception") > 0

\* C5: stop_preview kills only after terminate, the expired 3-second wait and
\* a further poll that found the process running; when the process had
\* already exited at the first poll it sends neither signal.
C5_TerminateBeforeKill ==
    /\ \A i \in 1..Len(ev.log) :
          ev.log[i] = "kill" =>
              /\ i > 3
              /\ ev.log[i - 3] = "terminate"
              /\ ev.log[i - 2] = "wait3:TimeoutExpired"
              /\ ev.log[i - 1] = "poll:running"
    /\ \A i \in 1..(Len(ev.log) - 1) :
          ev.log[i] = "stop_preview" /\ ev.log[i + 1] = "poll:exited" =>
              \A j \in (i + 1)..Len(ev.log) : ev.log[j] \notin {"terminate", "kill"}

\* C5 witness: stop_preview has sent a kill
C5_Killed == StopRan /\ Count(ev.log, "kill") > 0

\* C6: when stop_preview was called with a tracked process and has cleared
\* the session state, that process is no longer running.
C6_ExitedAfterStop ==
    ev.stopped.k = "proc" => procs[ev.stopped.v[1]].status # "running"

\* the tracked preview process has exited and the session still tracks it
DeadTracked ==
    /\ session_state.preview_process.k = "proc"
    /\ procs[session_state.preview_process.v[1]].status # "running"

ApplyOne(fs, c) ==
    IF /\ c.dict
       /\ c.filename.k = "str"
       /\ c.filename.v \in WorkspaceNames
    THEN IF c.action = CREATE_UPDATE /\ c.content.k = "str"
         THEN [fs EXCEPT ![c.filename.v] = Str(TextWrite(platform, c.content.v))]
         ELSE IF c.action = DELETE THEN [fs EXCEPT ![c.filename.v] = NoFile]
         ELSE fs
    ELSE fs

\* the files after the commands applied one by one in list order
RECURSIVE ApplyInOrder(_, _)
ApplyInOrder(fs, commands) ==
    IF commands = <<>> THEN fs
    ELSE ApplyInOrder(ApplyOne(fs, Head(commands)), Tail(commands))

\* C8: when the model answers with a list of commands, the workspace files
\* after the chat run are the files before it with the commands applied one
\* by one in list order, a failing or invalid command having no effect and
\* stopping no later command.
C8_AppliedInOrder ==
    [][(/\ ev'.op = "chat"
        /\ ev'.input.raises = ""
        /\ json_loads(_clean_ai_response_text(ev'.input.text)).ok
        /\ json_loads(_clean_ai_response_text(ev'.input.text)).value.t = "list")
       => files' = ApplyInOrder(files,
                      json_loads(_clean_ai_response_text(ev'.input.text)).value.items)]_vars

\* the cleaned response is no JSON, or is JSON that is no list
BadResponse(text) ==
    \/ ~json_loads(_clean_ai_response_text(text)).ok
    \/ json_loads(_clean_ai_response_text(text)).value.t # "list"

\* commands is a list of exactly one 'chat' record
OneChat(commands) ==
    /\ commands.k = "list"
    /\ Len(commands.v) = 1
    /\ commands.v[1].dict
    /\ commands.v[1].action = Str(<<"chat">>)
    /\ commands.v[1].content.k = "str"

\* the chat history grew by the prompt and by the assistant's message reply
Answered(before, after, reply) ==
    /\ Len(after) = Len(before) + 2
    /\ SubSeq(after, 1, Len(before)) = before
    /\ after[Len(after) - 1].role = "user"
    /\ after[Len(after)] = Message("assistant", reply)

\* C9: when the cleaned response is no JSON or no list, the interpreter
\* raises nothing and returns one 'chat' record that reports the error, which
\* becomes the assistant's message; the files, the selection, the editor and
\* the preview state are unchanged.
C9_ParseErrorsReported ==
    [][(ev'.op = "chat" /\ ev'.input.raises = "" /\ BadResponse(ev'.input.text))
       => /\ OneChat(ev'.ret)
          /\ ev'.ret.v[1].content.v[1] =
                IF json_loads(_clean_ai_response_text(ev'.input.text)).ok
                THEN "AI Error: Response was not a list. Response: "
                ELSE "AI Error: Invalid JSON received. Response: "
          /\ Answered(session_state.messages, session_state'.messages, ev'.ret)
          /\ files' = files
          /\ outside' = outside
          /\ procs' = procs
          /\ session_state' = [session_state EXCEPT
                                  !.messages = session_state'.messages]]_vars

\* C9 witness: the model answered with JSON that is no list, and the chat
\* history holds the report
C9_NotAListReported ==
    /\ ev.op = "chat"
    /\ ev.input.raises = ""
    /\ ev.input.text.body.t = "dict"
    /\ OneChat(ev.ret)

\* C10: a prompt makes exactly one call of the model; when the call raises,
\* ask_gemini_ai returns the text of a JSON array of one 'chat' command, no
\* file is changed and the error is the assistant's message in the history.
C10_ApiErrorsReported ==
    [][ev'.op = "chat"
       => /\ api_calls' = api_calls + 1
          /\ ev'.input.raises # "" =>
                /\ ask_gemini_ai(World, ev'.input).exc = "none"
                /\ ask_gemini_ai(World, ev'.input).ret.open = ""
                /\ ask_gemini_ai(World, ev'.input).ret.body
                       = JsonList(<<Chat(error_content(ev'.input.raises))>>)
                /\ ev'.ret = ListV(<<Chat(error_content(ev'.input.raises))>>)
                /\ OneChat(ev'.ret)
                /\ Answered(session_state.messages, session_state'.messages, ev'.ret)
                /\ files' = files
                /\ outside' = outside]_vars

\* C10 witness: the call of the model raised and the chat history ends with
\* the assistant's report of it
C10_ErrorReported ==
    /\ ev.op = "chat"
    /\ ev.input.raises \in ApiErrors
    /\ api_calls = 1
    /\ Len(session_state.messages) >= 2
    /\ session_state.messages[Len(session_state.messages)]
          = Message("assistant", ListV(<<Chat(error_content(ev.input.raises))>>))

\* the contents a caller saves: empty, plain, with '\n', and with '\r\n'
SavedContents == {<<>>, <<"y">>, <<"y", "\n">>, <<"y", "\r", "\n", "z">>}

\* the worlds a save_file and a delete_file on filename other lead to from w
AfterOther(w, other) ==
    {save_file(platform, w, Str(other), Y).w,
     delete_file(platform, w, Str(other), CleanStop).w}

\* C11 as stated: once save_file(filename, content) has returned True,
\* read_file(filename) returns exactly content, also after a save_file or a
\* delete_file on another filename.
C11_ReadsBackExactly ==
    \A n \in WorkspaceNames, c \in SavedContents :
        \A saved \in {save_file(platform, World, Str(n), Str(c))} :
            saved.ret = True =>
                /\ read_file(platform, saved.w, Str(n)).ret = Str(c)
                /\ \A m \in WorkspaceNames \ {n} : \A w \in AfterOther(saved.w, m) :
                      read_file(platform, w, Str(n)).ret = Str(c)

\* C11: once save_file(filename, content) has returned True the file exists
\* and read_file(filename) returns the content as text mode wrote it and
\* reads it back, which is the content itself when it holds no '\r'; a
\* save_file or delete_file on another filename does not change that.
C11_ReadsBackAsText ==
    \A n \in WorkspaceNames, c \in SavedContents :
        \A saved \in {save_file(platform, World, Str(n), Str(c))} :
            saved.ret = True =>
                \A back \in {read_file(platform, saved.w, Str(n)).ret} :
                    /\ IsFile(platform, saved.w, n)
                    /\ back = Str(TextRead(TextWrite(platform, c)))
                    /\ (\A i \in 1..Len(c) : c[i] # "\r") => back = Str(c)
                    /\ \A m \in WorkspaceNames \ {n} : \A w \in AfterOther(saved.w, m) :
                          read_file(platform, w, Str(n)).ret = back

\* C11 witness: a file was saved with a '\r\n' in its content and is read
\* back with a '\n' in its place
C11_SavedWithCR ==
    /\ ev.op = "chat"
    /\ files[B_PY] = Str(TextWrite(platform, CRLF.v))
    /\ read_file(platform, World, Str(B_PY)).ret # CRLF
    /\ read_file(platform, World, Str(B_PY)).ret.k = "str"

\* a filename that is missing or empty
AbsentNames == {None, Str(<<>>)}

\* the commands the presence checks turn down, each with its warning
Unaccepted ==
    {<<Cmd(CREATE_UPDATE, f, c), <<"AI Warning: Invalid create_update">> >> :
        f \in AbsentNames, c \in {None, Y, Str(<<>>)}}
    \cup {<<Cmd(CREATE_UPDATE, Str(n), None), <<"AI Warning: Invalid create_update">> >> :
        n \in WorkspaceNames}
    \cup {<<Cmd(DELETE, f, c), <<"AI Warning: Invalid delete">> >> :
        f \in AbsentNames, c \in {None, Y}}
    \cup {<<Cmd(Str(<<"rename">>), Str(n), Y),
            <<"AI Warning: Unknown action '", "rename", "'">> >> : n \in WorkspaceNames}
    \cup {<<Cmd(None, Str(n), Y),
            <<"AI Warning: Unknown action '", "None", "'">> >> : n \in WorkspaceNames}

\* C12: a create_update with no filename or no content, a delete with no
\* filename and a command with an unknown action change nothing and add one
\* 'chat' warning record after the command; a create_update with a filename
\* and an empty string as content is written and adds no record.
C12_PresenceChecks ==
    /\ \A u \in Unaccepted :
          ExecuteCommand(platform, World, u[1], CleanStop)
             = Result(World, <<u[1], Chat(u[2])>>, "none")
    /\ \A n \in WorkspaceNames :
          \A done \in {ExecuteCommand(platform, World,
                                      Cmd(CREATE_UPDATE, Str(n), Str(<<>>)), CleanStop)} :
              /\ done.exc = "none"
              /\ done.ret = <<Cmd(CREATE_UPDATE, Str(n), Str(<<>>))>>
              /\ done.w.files = [files EXCEPT ![n] = Str(<<>>)]

\* C12 witness: a chat run executed a list with commands that were turned
\* down, and the files are as they were at the start
C12_TurnedDown ==
    /\ ev.op = "chat"
    /\ ev.ret.k = "list"
    /\ \E i, j \in 1..Len(ev.ret.v) :
          /\ ev.ret.v[i] = Chat(<<"AI Warning: Invalid create_update">>)
          /\ ev.ret.v[j] = Chat(<<"AI Warning: Invalid delete">>)
    /\ files \in InitialFiles

\* the step removes file n from the workspace
Removes(n) == files[n] # NoFile /\ files'[n] = NoFile

\* C13: when a file is removed from the workspace while it is the selected
\* file, then after the run selected_file is None and the three editor
\* contents are empty strings, also when the file is the previewed one.
C13_DeleteClearsSelection ==
    [][\A n \in WorkspaceNames :
          (Removes(n) /\ session_state.selected_file = Str(n)) =>
              /\ session_state'.selected_file = None
              /\ session_state'.file_content_on_load = Str(<<>>)
              /\ session_state'.editor_unsaved_content = Str(<<>>)
              /\ session_state'.last_saved_content = Str(<<>>)]_vars

\* C14: when the file that is removed is the previewed one, the tracked
\* preview process is stopped and the session is idle after the run; when
\* another file is removed, the subprocesses and the four preview fields are
\* as before.
C14_DeleteStopsPreview ==
    [][\A n \in WorkspaceNames :
          Removes(n) =>
              IF session_state.preview_file = Str(n)
              THEN /\ Idle(session_state')
                   /\ session_state.preview_process.k = "proc" =>
                         procs'[session_state.preview_process.v[1]].status # "running"
              ELSE /\ procs' = procs
                   /\ session_state'.preview_process = session_state.preview_process
                   /\ session_state'.preview_port = session_state.preview_port
                   /\ session_state'.preview_url = session_state.preview_url
                   /\ session_state'.preview_file = session_state.preview_file]_vars

\* C15: the chat history alternates user, assistant, user, assistant: every
\* user message is followed by its assistant reply.
C15_HistoryAlternates ==
    /\ Len(session_state.messages) % 2 = 0
    /\ \A i \in 1..Len(session_state.messages) :
          session_state.messages[i].role = IF i % 2 = 1 THEN "user" ELSE "assistant"

\* command c, run in world w, succeeds: its file operation returns True
Succeeds(w, c) ==
    IF c.action = CREATE_UPDATE
    THEN /\ Truthy(c.filename)
         /\ c.content # None
         /\ save_file(platform, w, c.filename, c.content).ret = True
    ELSE IF c.action = DELETE
    THEN /\ Truthy(c.filename)
         /\ delete_file(platform, w, c.filename, CleanStop).ret = True
    ELSE c.action = Str(<<"chat">>)

\* the shape of the list to return for commands run from world w: a 'chat'
\* record in place of an item that is no dictionary, each dictionary as it
\* is, and one more 'chat' record after a dictionary that did not succeed
RECURSIVE Display(_, _)
Display(w, commands) ==
    IF commands = <<>> THEN <<>>
    ELSE (IF ~Head(commands).dict THEN <<Chat(<<>>)>>
          ELSE IF Succeeds(w, Head(commands)) THEN <<Head(commands)>>
          ELSE <<Head(commands), Chat(<<>>)>>)
         \o Display(ExecuteCommand(platform, w, Head(commands), CleanStop).w,
                    Tail(commands))

\* a list of records with the text of its 'chat' records left out
Shape(records) ==
    [i \in 1..Len(records) |->
        IF records[i].action = Str(<<"chat">>) THEN Chat(<<>>) ELSE records[i]]

\* C16: for a response that parses to a list, parse_and_execute_ai_commands
\* returns every dictionary of the list in order, a 'chat' record in place
\* of each item that is no dictionary, and exactly one more 'chat' record
\* right after each command that failed or is invalid.
C16_ReturnsDisplayList ==
    \A commands \in CommandLists :
        \A done \in {parse_and_execute_ai_commands(
                         platform, World, Text("", JsonList(commands), ""), CleanStop)} :
            /\ done.exc = "none"
            /\ Shape(done.ret) = Shape(Display(World, commands))

\* the three fields of the editor
Editor(ss) == <<ss.file_content_on_load, ss.last_saved_content, ss.editor_unsaved_content>>

\* the filenames and contents of the 'create_update' commands looked at
SavedAs == {Str(A_PY), Str(B_PY), Str(UP_A_PY), Str(DRIVE_C), Str(<<>>), Other, None}
SavedTexts == {Y, Str(<<>>), CRLF, Other, None}

\* C17: a 'create_update' command that is saved successfully and names the
\* selected file sets file_content_on_load, last_saved_content and
\* editor_unsaved_content to the command's content; a command that names
\* another file, or whose save fails, leaves the three fields as they were.
C17_AISaveLoadsEditor ==
    \A filename \in SavedAs, content \in SavedTexts :
        \A done \in {ExecuteCommand(platform, World,
                                    Cmd(CREATE_UPDATE, filename, content), CleanStop)} :
            IF /\ Succeeds(World, Cmd(CREATE_UPDATE, filename, content))
               /\ session_state.selected_file = filename
            THEN Editor(done.w.ss) = <<content, content, content>>
            ELSE Editor(done.w.ss) = Editor(session_state)

\* C17 witness: a chat run saved 'y' to a.py while a.py was open in the
\* editor, and the editor holds 'y'
C17_EditorReplaced ==
    /\ ev.op = "chat"
    /\ ev.ret.k = "list"
    /\ ev.ret.v = <<Cmd(CREATE_UPDATE, Str(A_PY), Y), Chat(<<"done">>)>>
    /\ session_state.selected_file = Str(A_PY)
    /\ Editor(session_state) = <<Y, Y, Y>>
    /\ files[A_PY] = Y

\* C18: start_preview called for a file of the workspace while a preview
\* process is tracked stops the old process and clears the four preview
\* fields, and spawns no process while the old one is tracked.
C18_StopsOldPreviewFirst ==
    session_state.preview_process.k = "proc" =>
        \A n \in WorkspaceNames, env \in StartEnvs, stopenv \in StopEnvs :
            IsFile(platform, World, n) =>
                \A done \in {start_preview(platform, World, n, env, stopenv)} :
                    /\ Idle(done.w.ss)
                    /\ Spawned(done.w.procs) = Spawned(procs)
                    /\ done.w.procs[session_state.preview_process.v[1]].status # "running"

\* C19: the four preview fields are all None, or all set; when set,
\* preview_url is 'http://localhost:' followed by preview_port, and
\* preview_port is the port the tracked subprocess was started on.
C19_PreviewFieldsAgree ==
    \/ Idle(session_state)
    \/ /\ session_state.preview_process.k = "proc"
       /\ session_state.preview_port.k = "int"
       /\ session_state.preview_file.k = "str"
       /\ session_state.preview_url =
              Str(<<"http://localhost:", ToString(session_state.preview_port.v[1])>>)
       /\ \A p \in Running(procs) :
              session_state.preview_process = Proc(p) =>
                  session_state.preview_port = IntV(procs[p].port)

\* C19 witness: a preview of a.py runs on port 8502 and the four fields
\* name it
C19_TrackedOnSecondPort ==
    /\ session_state.preview_process.k = "proc"
    /\ procs[session_state.preview_process.v[1]] = [status |-> "running", port |-> 8502]
    /\ session_state.preview_port = IntV(8502)
    /\ session_state.preview_url = Str(<<"http://localhost:", "8502">>)
    /\ session_state.preview_file = Str(A_PY)

====
